---- MODULE Spec2Model ----
(***************************************************************************)
(* Chunked CSV processing with optional global de-duplication              *)
(* (src/ReadCSVFile.py).  A run of process_csv_in_chunks is modelled       *)
(* window by window: the transform loop, and in Dedup Mode the two passes  *)
(* of _remove_duplicates_across_chunks over the intermediate file.         *)
(*                                                                         *)
(* A file on disk is a sequence of text lines; a line keeps, next to its   *)
(* cell texts, the number of the input row it stems from (id, 0 for a      *)
(* header line) and whether to_csv wrote it as a header line (hdr).  Both  *)
(* are history fields: the code never reads them.                          *)
(*                                                                         *)
(* pandas is modelled by what the calls used here do: read_csv infers the  *)
(* dtype of every column per chunk, to_csv formats a value by its dtype.   *)
(***************************************************************************)
EXTENDS Integers, Sequences, FiniteSets, TLC

\* ------------------------------------------------------------------ bounds
MaxRows == 3
MaxChunk == 2

\* ------------------------------------------------------- the input domain
\* Column names of the input file.  "Name" is canonical only after the
\* Lowercase rule; "grade" already is.
Header == <<"Name", "grade">>
\* Cell texts of the two columns.  "1" parses as an integer, "x" as a
\* string, " x" differs from "x" by leading white space only, "" is missing.
NameTexts == {"a"}
GradeTexts == {"1", "x", " x", ""}

Min(a, b) == IF a < b THEN a ELSE b

Range(s) == {s[i] : i \in DOMAIN s}

RECURSIVE SelectIdx(_, _)
\* the sub-sequence of s at the positions where keep is TRUE (df[mask])
SelectIdx(s, keep) ==
  IF s = <<>> THEN <<>>
  ELSE (IF Head(keep) THEN <<Head(s)>> ELSE <<>>) \o SelectIdx(Tail(s), Tail(keep))

\* ------------------------------------------------------------------ files
NoFile == [exists |-> FALSE, lines |-> <<>>]
File(ls) == [exists |-> TRUE, lines |-> ls]
HeaderLine(cols) == [hdr |-> TRUE, cells |-> cols, id |-> 0]
DataLine(cells, id) == [hdr |-> FALSE, cells |-> cells, id |-> id]
\* what a path holds when something was there before the run
StaleFile == File(<<HeaderLine(<<"old", "old">>), DataLine(<<"stale", "stale">>, 99)>>)

\* the data rows a file shows to a reader that takes line 1 as the header
DataOf(f) == IF f.lines = <<>> THEN <<>> ELSE Tail(f.lines)
\* the lines of a file that to_csv wrote as data
RowsOf(f) == SelectSeq(f.lines, LAMBDA l : ~l.hdr)
IdsOf(ls) == [i \in DOMAIN ls |-> ls[i].id]

\* ----------------------------------------------------------------- values
\* A cell in memory: dtype tag t, value v (numbers by their canonical text),
\* and o, the identity of the Python object where equality looks at it.
V(t, v) == [t |-> t, v |-> v, o |-> <<>>]
NaN == V("nan", "")
\* the missing value of an object column: read_csv stores the one object
\* numpy.nan in every such cell
NpNaN == [t |-> "nan", v |-> "", o |-> <<"numpy.nan">>]
IsNaN(x) == x.t = "nan"

IntTexts == {"1"}
FloatTexts == {"1.0"}
NATexts == {"", "nan"}
NumOf(s) == IF s = "1.0" THEN "1" ELSE s
FloatText(v) == IF v = "1" THEN "1.0" ELSE v
Strip(s) == IF s = " x" THEN "x" ELSE s
Lower(s) == IF s = "Name" THEN "name" ELSE s
\* pandas names a header cell without text "Unnamed: <n>"
ColName(s) == IF s = "" THEN "Unnamed" ELSE s

\* pd.read_csv: the dtype of one column of one chunk, from its texts alone
InferCol(texts) ==
  IF \A i \in DOMAIN texts : texts[i] \in NATexts
    THEN [i \in DOMAIN texts |-> NaN]
  ELSE IF \A i \in DOMAIN texts : texts[i] \in IntTexts
    THEN [i \in DOMAIN texts |-> V("int", texts[i])]
  ELSE IF \A i \in DOMAIN texts : texts[i] \in IntTexts \cup FloatTexts \cup NATexts
    THEN [i \in DOMAIN texts |->
            IF texts[i] \in NATexts THEN NaN ELSE V("float", NumOf(texts[i]))]
  ELSE [i \in DOMAIN texts |->
            IF texts[i] \in NATexts THEN NpNaN ELSE V("str", texts[i])]

\* one chunk of a chunked read: lines is the window, base the global index
\* of its first row (the RangeIndex of a chunked read runs on across chunks)
ParseChunk(cols, lines, base) ==
  LET col(c) == InferCol([i \in DOMAIN lines |-> lines[i].cells[c]])
  IN [cols |-> cols,
      rows |-> [i \in DOMAIN lines |->
                  [idx |-> base + i - 1,
                   id |-> lines[i].id,
                   vals |-> [c \in DOMAIN cols |-> col(c)[i]]]]]

\* DataFrame.to_csv: the text of one value
FormatValue(x) ==
  CASE x.t = "int" -> x.v
    [] x.t = "float" -> FloatText(x.v)
    [] x.t = "str" -> x.v
    [] OTHER -> ""

\* DataFrame.to_csv(path, mode, header, index=False)
ToCsv(f, df, mode, header) ==
  LET old == IF mode = "a" /\ f.exists THEN f.lines ELSE <<>>
      hd == IF header THEN <<HeaderLine(df.cols)>> ELSE <<>>
      body == [i \in DOMAIN df.rows |->
                 DataLine([c \in DOMAIN df.cols |-> FormatValue(df.rows[i].vals[c])],
                          df.rows[i].id)]
  IN File(old \o hd \o body)

\* ------------------------------------------------------------------ rules
\* One cell of the rules table, after the keyword it contains (op) and the
\* slash separated text that follows the keyword (params).
Rule(op, params) == [op |-> op, params |-> params]
\* the rules file: unreadable (ExcelReader.get_content raises), or its cells
RulesUnreadable == [ok |-> FALSE, rules |-> <<>>]
Rules(rs) == [ok |-> TRUE, rules |-> rs]

RuleSources ==
  { RulesUnreadable,
    Rules(<<>>),
    Rules(<<Rule("RemoveEmptyRows", <<>>)>>),
    Rules(<<Rule("Numeric", <<"grade">>), Rule("RemoveDuplicates", <<>>)>>),
    Rules(<<Rule("RemoveDuplicates", <<"Name", "grade">>)>>),
    Rules(<<Rule("Lowercase", <<>>), Rule("RemoveDuplicates", <<"Name", "grade">>)>>),
    Rules(<<Rule("Lowercase", <<>>), Rule("RemoveDuplicates", <<"Name">>)>>),
    Rules(<<Rule("RemoveEmptyRows", <<>>), Rule("RemoveDuplicates", <<"grade">>)>>),
    Rules(<<Rule("RemoveDuplicates", <<"Name">>)>>),
    Rules(<<Rule("Numeric", <<"Name">>), Rule("Lowercase", <<>>)>>) }

LowerAll(ps) == [i \in DOMAIN ps |-> Lower(ps[i])]

RECURSIVE FirstDedupRule(_)
FirstDedupRule(rs) ==
  IF rs = <<>> THEN <<>>
  ELSE IF Head(rs).op = "RemoveDuplicates" /\ Head(rs).params # <<>>
    THEN SelectSeq(LowerAll(Head(rs).params), LAMBDA c : c # "")
  ELSE FirstDedupRule(Tail(rs))

\* get_deduplication_columns; None is the empty list here, the caller only
\* tests the result for truth
get_deduplication_columns(src) ==
  IF ~src.ok THEN <<>>
  ELSE FirstDedupRule(src.rules)

\* ----------------------------------------------------- data_transformation
ColIndex(cols, name) == CHOOSE c \in DOMAIN cols : cols[c] = name

IsObjectCol(df, c) == \E i \in DOMAIN df.rows : df.rows[i].vals[c].t = "str"

SetCol(df, c, newcol) ==
  [df EXCEPT !.rows = [i \in DOMAIN df.rows |->
                         [df.rows[i] EXCEPT !.vals[c] = newcol[i]]]]

\* df[col].astype(str).str.strip() on every object column
AsStrStrip(x) == IF IsNaN(x) THEN V("str", "nan") ELSE V("str", Strip(x.v))

CleanStrings(df) ==
  [df EXCEPT !.rows = [i \in DOMAIN df.rows |->
     [df.rows[i] EXCEPT !.vals = [c \in DOMAIN df.cols |->
        IF IsObjectCol(df, c) THEN AsStrStrip(df.rows[i].vals[c])
        ELSE df.rows[i].vals[c]]]]]

\* pd.to_numeric(column, errors='coerce')
ToNumericCol(df, c) ==
  LET one(x) == IF x.t \in {"int", "float"} THEN x
                ELSE IF x.t = "str" /\ x.v \in IntTexts THEN V("int", x.v)
                ELSE IF x.t = "str" /\ x.v \in FloatTexts THEN V("float", NumOf(x.v))
                ELSE NaN
      conv == [i \in DOMAIN df.rows |-> one(df.rows[i].vals[c])]
      allInt == \A i \in DOMAIN conv : conv[i].t = "int"
  IN IF ~IsObjectCol(df, c) THEN [i \in DOMAIN df.rows |-> df.rows[i].vals[c]]
     ELSE [i \in DOMAIN conv |->
             IF allInt \/ IsNaN(conv[i]) THEN conv[i] ELSE V("float", conv[i].v)]

RECURSIVE ToNumericCols(_, _)
ToNumericCols(df, names) ==
  IF names = <<>> THEN df
  ELSE LET nm == Head(names)
           d1 == IF nm \in Range(df.cols)
                 THEN SetCol(df, ColIndex(df.cols, nm), ToNumericCol(df, ColIndex(df.cols, nm)))
                 ELSE df
       IN ToNumericCols(d1, Tail(names))

\* df.dropna()
DropNa(df) ==
  [df EXCEPT !.rows = SelectSeq(df.rows,
      LAMBDA r : \A c \in DOMAIN r.vals : ~IsNaN(r.vals[c]))]

\* ApplyRule that drops the duplicate rows of the chunk (df.drop_duplicates())
\* for a RemoveDuplicates rule unless skip_deduplication is set
ApplyRule_DedupInChunk(df, rule, skip_deduplication) ==
  CASE rule.op = "Lowercase" -> [df EXCEPT !.cols = LowerAll(df.cols)]
    [] rule.op = "RemoveEmptyRows" -> DropNa(df)
    [] rule.op = "Numeric" -> ToNumericCols(df, LowerAll(rule.params))
    [] rule.op = "RemoveDuplicates" ->
         IF skip_deduplication THEN df
         ELSE [df EXCEPT !.rows = SelectIdx(df.rows,
                 [i \in DOMAIN df.rows |->
                    \A j \in 1..(i - 1) : df.rows[j].vals # df.rows[i].vals])]
    [] OTHER -> df

\* the body of the loop over the cells of the rules table, for one cell
ApplyRule(df, rule, skip_deduplication) ==
  CASE rule.op = "Lowercase" -> [df EXCEPT !.cols = LowerAll(df.cols)]
    [] rule.op = "RemoveEmptyRows" -> DropNa(df)
    [] rule.op = "Numeric" -> ToNumericCols(df, LowerAll(rule.params))
    [] rule.op = "RemoveDuplicates" -> df
    [] OTHER -> df

RECURSIVE ApplyRules(_, _, _)
ApplyRules(df, rs, skip_deduplication) ==
  IF rs = <<>> THEN df
  ELSE ApplyRules(ApplyRule(df, Head(rs), skip_deduplication), Tail(rs), skip_deduplication)

\* data_transformation(df, skip_deduplication): the rules file is read on
\* every call, outside any try block
data_transformation(df, skip_deduplication, src) ==
  IF ~src.ok THEN [ok |-> FALSE, df |-> df]
  ELSE [ok |-> TRUE, df |-> ApplyRules(CleanStrings(df), src.rules, skip_deduplication)]

\* ------------------------------------------------------- chunked reading
\* pd.read_csv(path, chunksize=n): line 1 gives the column names
ColumnsOf(f) == [c \in DOMAIN f.lines[1].cells |-> ColName(f.lines[1].cells[c])]
\* read_csv raises when the path is missing or the file has no line at all
CanRead(f) == f.exists /\ f.lines # <<>>
Window(data, pos, chunk_size) == SubSeq(data, pos + 1, Min(pos + chunk_size, Len(data)))
\* the reader yields a chunk while rows are left; a file with a header and
\* no row yields one empty chunk
MoreChunks(data, pos, chunk_num) == pos < Len(data) \/ chunk_num = 0
NextChunk(f, pos, chunk_size) == ParseChunk(ColumnsOf(f), Window(DataOf(f), pos, chunk_size), pos)

\* ------------------------------------ the loop body of both transform loops
\* DriverStep with header = write_header: the header goes out with every window
DriverStep_HeaderEveryWindow(st, inp, src, chunk_size, write_header, skip_deduplication) ==
  LET chunk_df == NextChunk(inp, st.pos, chunk_size)
      tr == data_transformation(chunk_df, skip_deduplication, src)
      mode == IF st.first_chunk THEN "w" ELSE "a"
      header == write_header
  IN IF ~tr.ok THEN [st EXCEPT !.ok = FALSE]
     ELSE [ok |-> TRUE,
           sink |-> ToCsv(st.sink, tr.df, mode, header),
           pos |-> st.pos + Len(chunk_df.rows),
           chunk_num |-> st.chunk_num + 1,
           first_chunk |-> FALSE,
           header |-> header]

\* DriverStep with mode = 'a' for every window, the first included
DriverStep_AlwaysAppend(st, inp, src, chunk_size, write_header, skip_deduplication) ==
  LET chunk_df == NextChunk(inp, st.pos, chunk_size)
      tr == data_transformation(chunk_df, skip_deduplication, src)
      mode == "a"
      header == write_header /\ st.first_chunk
  IN IF ~tr.ok THEN [st EXCEPT !.ok = FALSE]
     ELSE [ok |-> TRUE,
           sink |-> ToCsv(st.sink, tr.df, mode, header),
           pos |-> st.pos + Len(chunk_df.rows),
           chunk_num |-> st.chunk_num + 1,
           first_chunk |-> FALSE,
           header |-> header]

\* lines 54-70 and 100-116: transform one window and write it to sink
DriverStep(st, inp, src, chunk_size, write_header, skip_deduplication) ==
  LET chunk_df == NextChunk(inp, st.pos, chunk_size)
      tr == data_transformation(chunk_df, skip_deduplication, src)
      mode == IF st.first_chunk THEN "w" ELSE "a"
      header == write_header /\ st.first_chunk
  IN IF ~tr.ok THEN [st EXCEPT !.ok = FALSE]
     ELSE [ok |-> TRUE,
           sink |-> ToCsv(st.sink, tr.df, mode, header),
           pos |-> st.pos + Len(chunk_df.rows),
           chunk_num |-> st.chunk_num + 1,
           first_chunk |-> FALSE,
           header |-> header]

LoopStart(sink) ==
  [ok |-> TRUE, sink |-> sink, pos |-> 0, chunk_num |-> 0, first_chunk |-> TRUE,
   header |-> FALSE]

RECURSIVE DriverLoop(_, _, _, _, _, _)
DriverLoop(st, inp, src, chunk_size, write_header, skip_deduplication) ==
  IF ~st.ok \/ ~MoreChunks(DataOf(inp), st.pos, st.chunk_num) THEN st
  ELSE DriverLoop(DriverStep(st, inp, src, chunk_size, write_header, skip_deduplication),
                  inp, src, chunk_size, write_header, skip_deduplication)

\* ------------------------------------------ _remove_duplicates_across_chunks
\* One component of a combination, as set membership and dict lookup see it:
\* 1 and 1.0 are equal and hash alike, "1" differs from both, and a NaN is
\* equal to nothing but the very same object.  The NaN of a float64 column
\* is boxed into a new object for every row of every pass; the NaN of an
\* object column stays the one object numpy.nan.
KeyVal(x, pass, idx, c) ==
  IF x = NpNaN THEN x
  ELSE IF IsNaN(x) THEN [t |-> "nan", v |-> "", o |-> <<pass, idx, c>>]
  ELSE IF x.t \in {"int", "float"} THEN [t |-> "num", v |-> x.v, o |-> <<>>]
  ELSE x

\* tuple(row[col] for col in dedup_columns if col in chunk.columns)
Combination(row, cols, dedup_columns, pass) ==
  LET present == SelectSeq(dedup_columns, LAMBDA col : col \in Range(cols))
  IN [k \in DOMAIN present |->
        KeyVal(row.vals[ColIndex(cols, present[k])], pass, row.idx, ColIndex(cols, present[k]))]

DictSet(d, k, val) == [x \in DOMAIN d \cup {k} |-> IF x = k THEN val ELSE d[x]]

RECURSIVE Pass1Rows(_, _, _, _, _, _)
\* lines 157-165, for the rows of one chunk
Pass1Rows(rows, cols, chunk_num, chunk_size, dedup_columns, st) ==
  IF rows = <<>> THEN st
  ELSE LET row == Head(rows)
           combination == Combination(row, cols, dedup_columns, 1)
           st1 == IF combination \notin st.seen_combinations
                  THEN [seen_combinations |-> st.seen_combinations \cup {combination},
                        first_occurrence_indices |->
                          DictSet(st.first_occurrence_indices, combination,
                                  <<chunk_num, row.idx % chunk_size>>)]
                  ELSE st
       IN Pass1Rows(Tail(rows), cols, chunk_num, chunk_size, dedup_columns, st1)

\* KeepRow comparing the position inside the chunk only
KeepRow_IgnoresChunk(row, cols, chunk_num, chunk_size, dedup_columns, first_occurrence_indices) ==
  LET combination == Combination(row, cols, dedup_columns, 2)
      expected == first_occurrence_indices[combination]
  IN (row.idx % chunk_size) = expected[2]

\* lines 180-188: TRUE for a row to keep; a combination that is no key of
\* first_occurrence_indices raises KeyError
KeepRow(row, cols, chunk_num, chunk_size, dedup_columns, first_occurrence_indices) ==
  LET combination == Combination(row, cols, dedup_columns, 2)
      expected == first_occurrence_indices[combination]
  IN chunk_num = expected[1] /\ (row.idx % chunk_size) = expected[2]

LookupFails(chunk, dedup_columns, first_occurrence_indices) ==
  \E i \in DOMAIN chunk.rows :
     Combination(chunk.rows[i], chunk.cols, dedup_columns, 2)
        \notin DOMAIN first_occurrence_indices

\* lines 176-203, for one chunk of the second pass
Pass2Step(st, inp, chunk_size, dedup_columns, first_occurrence_indices) ==
  LET chunk == NextChunk(inp, st.pos, chunk_size)
      rows_to_keep == [i \in DOMAIN chunk.rows |->
                         KeepRow(chunk.rows[i], chunk.cols, st.chunk_num, chunk_size,
                                 dedup_columns, first_occurrence_indices)]
      filtered_chunk == [chunk EXCEPT !.rows = SelectIdx(chunk.rows, rows_to_keep)]
  IN IF LookupFails(chunk, dedup_columns, first_occurrence_indices)
       THEN [st EXCEPT !.ok = FALSE]
     ELSE [ok |-> TRUE,
           sink |-> IF Len(filtered_chunk.rows) > 0
                    THEN ToCsv(st.sink, filtered_chunk,
                               IF st.first_chunk THEN "w" ELSE "a", st.first_chunk)
                    ELSE st.sink,
           pos |-> st.pos + Len(chunk.rows),
           chunk_num |-> st.chunk_num + 1,
           first_chunk |-> st.first_chunk /\ Len(filtered_chunk.rows) = 0,
           header |-> st.first_chunk /\ Len(filtered_chunk.rows) > 0]

Pass1Step(st, inp, chunk_size, dedup_columns) ==
  LET chunk == NextChunk(inp, st.pos, chunk_size)
      r == Pass1Rows(chunk.rows, chunk.cols, st.chunk_num, chunk_size, dedup_columns,
                     [seen_combinations |-> st.seen_combinations,
                      first_occurrence_indices |-> st.first_occurrence_indices])
  IN [seen_combinations |-> r.seen_combinations,
      first_occurrence_indices |-> r.first_occurrence_indices,
      pos |-> st.pos + Len(chunk.rows),
      chunk_num |-> st.chunk_num + 1]

RECURSIVE ChunkRows(_, _, _, _)
\* enumerate(chunk_reader) with chunk.iterrows(): every row a pass reads, in
\* file order, with the number and the columns of its chunk
ChunkRows(f, chunk_size, pos, chunk_num) ==
  IF pos >= Len(DataOf(f)) THEN <<>>
  ELSE LET chunk == NextChunk(f, pos, chunk_size)
       IN [i \in DOMAIN chunk.rows |->
             [chunk_num |-> chunk_num, cols |-> chunk.cols, row |-> chunk.rows[i]]]
          \o ChunkRows(f, chunk_size, pos + Len(chunk.rows), chunk_num + 1)

\* the position both passes use for a row: (chunk_num, idx % chunk_size)
PositionOf(r, chunk_size) == <<r.chunk_num, r.row.idx % chunk_size>>

Pass1Start == [seen_combinations |-> {}, first_occurrence_indices |-> <<>>,
               pos |-> 0, chunk_num |-> 0]

RECURSIVE Pass1Loop(_, _, _, _)
Pass1Loop(st, inp, chunk_size, dedup_columns) ==
  IF ~MoreChunks(DataOf(inp), st.pos, st.chunk_num) THEN st
  ELSE Pass1Loop(Pass1Step(st, inp, chunk_size, dedup_columns), inp, chunk_size, dedup_columns)

RECURSIVE Pass2Loop(_, _, _, _, _)
Pass2Loop(st, inp, chunk_size, dedup_columns, first_occurrence_indices) ==
  IF ~st.ok \/ ~MoreChunks(DataOf(inp), st.pos, st.chunk_num) THEN st
  ELSE Pass2Loop(Pass2Step(st, inp, chunk_size, dedup_columns, first_occurrence_indices),
                 inp, chunk_size, dedup_columns, first_occurrence_indices)

\* _remove_duplicates_across_chunks(input_file, output_file, dedup_columns,
\* chunk_size) as a function of the file read and the file found at the
\* output path: ok and the output file it leaves
RemoveDuplicatesAcrossChunks(inp, out, dedup_columns, chunk_size) ==
  IF ~CanRead(inp) THEN [ok |-> FALSE, sink |-> out]
  ELSE LET p1 == Pass1Loop(Pass1Start, inp, chunk_size, dedup_columns)
           p2 == Pass2Loop(LoopStart(out), inp, chunk_size, dedup_columns,
                           p1.first_occurrence_indices)
       IN [ok |-> p2.ok, sink |-> p2.sink]

\* process_csv_in_chunks as a function of its inputs, when no read or write
\* fails for a reason outside the program: ok and the final output file
ProcessCsvInChunks(inp, src, chunk_size, write_header) ==
  LET dedup_columns == get_deduplication_columns(src)
  IN IF ~CanRead(inp) THEN [ok |-> FALSE, sink |-> NoFile]
     ELSE IF dedup_columns = <<>>
       THEN LET r == DriverLoop(LoopStart(NoFile), inp, src, chunk_size, write_header, FALSE)
            IN [ok |-> r.ok, sink |-> r.sink]
     ELSE LET t == DriverLoop(LoopStart(NoFile), inp, src, chunk_size, write_header, TRUE)
          IN IF ~t.ok THEN [ok |-> FALSE, sink |-> NoFile]
             ELSE RemoveDuplicatesAcrossChunks(t.sink, NoFile, dedup_columns, chunk_size)

\* ------------------------------------------------------------ the machine
VARIABLES
  input_file,        \* the file at input_file
  output_file,       \* the file at output_file
  temp_file,         \* the file at input_file + '.temp_transformed.csv'
  rules_src,         \* the rules file
  chunk_size,
  write_header,
  pc,                \* where the run is
  dedup_columns,
  pos,               \* rows the current reader has handed out
  chunk_num,         \* chunks the current reader has handed out
  first_chunk,
  seen_combinations,
  first_occurrence_indices,
  raised,            \* the exception that reached the caller, "" if none
  failed_in,         \* the phase the exception was raised in
  hdr_log,           \* history: the header argument of every window written
  rerun,             \* a second de-duplication of the final output, if made
  stale,             \* history: files were at both paths before the run
  rows_in_memory     \* the number of rows of the chunk the loop holds

vars == <<input_file, output_file, temp_file, rules_src, chunk_size, write_header,
          pc, dedup_columns, pos, chunk_num, first_chunk, seen_combinations,
          first_occurrence_indices, raised, failed_in, hdr_log, rerun, stale,
          rows_in_memory>>

inputs == <<input_file, rules_src, chunk_size, write_header, stale>>
dedup_state == <<seen_combinations, first_occurrence_indices>>

RowTexts == {<<n, g>> : n \in NameTexts, g \in GradeTexts}
RowSeqs == UNION {[1..n -> RowTexts] : n \in 0..MaxRows}
InputFile(rows) ==
  File(<<HeaderLine(Header)>> \o [i \in DOMAIN rows |-> DataLine(rows[i], i)])
NoRerun == [made |-> FALSE, chunk_size |-> 0, ok |-> FALSE, sink |-> NoFile]

Init ==
  /\ input_file \in {NoFile} \cup {InputFile(rows) : rows \in RowSeqs}
  /\ stale \in BOOLEAN
  /\ output_file = (IF stale THEN StaleFile ELSE NoFile)
  /\ temp_file = (IF stale THEN StaleFile ELSE NoFile)
  /\ rules_src \in RuleSources
  /\ chunk_size \in 1..MaxChunk
  /\ write_header \in BOOLEAN
  /\ pc = "start"
  /\ dedup_columns = <<>>
  /\ pos = 0
  /\ chunk_num = 0
  /\ first_chunk = TRUE
  /\ seen_combinations = {}
  /\ first_occurrence_indices = <<>>
  /\ raised = ""
  /\ failed_in = ""
  /\ hdr_log = <<>>
  /\ rerun = NoRerun
  /\ rows_in_memory = 0

Remove(f) == NoFile

Raise(exc, phase) ==
  /\ pc' = "failed"
  /\ raised' = exc
  /\ failed_in' = phase

LoopState(sink) ==
  [ok |-> TRUE, sink |-> sink, pos |-> pos, chunk_num |-> chunk_num,
   first_chunk |-> first_chunk, header |-> FALSE]

ResetReader ==
  /\ pos' = 0
  /\ chunk_num' = 0
  /\ first_chunk' = TRUE

\* Start that truncates the output path for writing instead of removing it
Start_OpensOutput ==
  /\ pc = "start"
  /\ output_file' = File(<<>>)
  /\ dedup_columns' = get_deduplication_columns(rules_src)
  /\ pc' = IF dedup_columns' # <<>> THEN "dedup_transform" ELSE "no_dedup"
  /\ UNCHANGED <<inputs, temp_file, pos, chunk_num, first_chunk, dedup_state,
                 raised, failed_in, hdr_log, rerun, rows_in_memory>>

\* Start that takes the de-duplication path whatever the column list is
Start_AlwaysDedup ==
  /\ pc = "start"
  /\ output_file' = (IF output_file.exists THEN Remove(output_file) ELSE output_file)
  /\ dedup_columns' = get_deduplication_columns(rules_src)
  /\ pc' = "dedup_transform"
  /\ UNCHANGED <<inputs, temp_file, pos, chunk_num, first_chunk, dedup_state,
                 raised, failed_in, hdr_log, rerun, rows_in_memory>>

\* process_csv_in_chunks, lines 26-39: discard the old output, pick the mode
Start ==
  /\ pc = "start"
  /\ output_file' = (IF output_file.exists THEN Remove(output_file) ELSE output_file)
  /\ dedup_columns' = get_deduplication_columns(rules_src)
  /\ pc' = IF dedup_columns' # <<>> THEN "dedup_transform" ELSE "no_dedup"
  /\ UNCHANGED <<inputs, temp_file, pos, chunk_num, first_chunk, dedup_state,
                 raised, failed_in, hdr_log, rerun, rows_in_memory>>

\* ---- _process_without_deduplication
\* line 54: pd.read_csv raises; lines 76-78 print and re-raise
NdOpenFails ==
  /\ pc = "no_dedup"
  /\ chunk_num = 0
  /\ ~CanRead(input_file)
  /\ Raise("ReadError", "open")
  /\ UNCHANGED <<inputs, output_file, temp_file, dedup_columns, pos, chunk_num,
                 first_chunk, dedup_state, hdr_log, rerun, rows_in_memory>>

\* lines 54-70 for one window; an exception of transform_function is
\* re-raised by lines 76-78
NdChunk ==
  /\ pc = "no_dedup"
  /\ CanRead(input_file)
  /\ MoreChunks(DataOf(input_file), pos, chunk_num)
  /\ LET st == DriverStep(LoopState(output_file), input_file, rules_src,
                          chunk_size, write_header, FALSE)
     IN IF st.ok
        THEN /\ output_file' = st.sink
             /\ pos' = st.pos
             /\ chunk_num' = st.chunk_num
             /\ first_chunk' = st.first_chunk
             /\ hdr_log' = Append(hdr_log, st.header)
             /\ UNCHANGED <<pc, raised, failed_in>>
        ELSE /\ Raise("RulesError", "transform")
             /\ UNCHANGED <<output_file, pos, chunk_num, first_chunk, hdr_log>>
  /\ rows_in_memory' = Len(Window(DataOf(input_file), pos, chunk_size))
  /\ UNCHANGED <<inputs, temp_file, dedup_columns, dedup_state, rerun>>

\* a read or a write of the loop fails for a reason outside the program
NdIOError ==
  /\ pc = "no_dedup"
  /\ CanRead(input_file)
  /\ MoreChunks(DataOf(input_file), pos, chunk_num)
  /\ Raise("IOError", "transform")
  /\ UNCHANGED <<inputs, output_file, temp_file, dedup_columns, pos, chunk_num,
                 first_chunk, dedup_state, hdr_log, rerun, rows_in_memory>>

\* line 80: the reader is exhausted
NdReturn ==
  /\ pc = "no_dedup"
  /\ CanRead(input_file)
  /\ ~MoreChunks(DataOf(input_file), pos, chunk_num)
  /\ pc' = "done"
  /\ UNCHANGED <<inputs, output_file, temp_file, dedup_columns, pos, chunk_num,
                 first_chunk, dedup_state, raised, failed_in, hdr_log, rerun, rows_in_memory>>

\* ---- _process_with_deduplication, step 1
\* DtHandler without lines 124-125: the error is re-raised, nothing removed
DtHandler_NoCleanup(exc, phase) ==
  /\ temp_file' = temp_file
  /\ Raise(exc, phase)

\* the handler of lines 121-126: remove the intermediate file, re-raise
DtHandler(exc, phase) ==
  /\ temp_file' = (IF temp_file.exists THEN Remove(temp_file) ELSE temp_file)
  /\ Raise(exc, phase)

DtOpenFails ==
  /\ pc = "dedup_transform"
  /\ chunk_num = 0
  /\ ~CanRead(input_file)
  /\ DtHandler("ReadError", "open")
  /\ UNCHANGED <<inputs, output_file, dedup_columns, pos, chunk_num,
                 first_chunk, dedup_state, hdr_log, rerun, rows_in_memory>>

\* lines 100-116 for one window
DtChunk ==
  /\ pc = "dedup_transform"
  /\ CanRead(input_file)
  /\ MoreChunks(DataOf(input_file), pos, chunk_num)
  /\ LET st == DriverStep(LoopState(temp_file), input_file, rules_src,
                          chunk_size, write_header, TRUE)
     IN IF st.ok
        THEN /\ temp_file' = st.sink
             /\ pos' = st.pos
             /\ chunk_num' = st.chunk_num
             /\ first_chunk' = st.first_chunk
             /\ hdr_log' = Append(hdr_log, st.header)
             /\ UNCHANGED <<pc, raised, failed_in>>
        ELSE /\ DtHandler("RulesError", "transform")
             /\ UNCHANGED <<pos, chunk_num, first_chunk, hdr_log>>
  /\ rows_in_memory' = Len(Window(DataOf(input_file), pos, chunk_size))
  /\ UNCHANGED <<inputs, output_file, dedup_columns, dedup_state, rerun>>

DtIOError ==
  /\ pc = "dedup_transform"
  /\ CanRead(input_file)
  /\ MoreChunks(DataOf(input_file), pos, chunk_num)
  /\ DtHandler("IOError", "transform")
  /\ UNCHANGED <<inputs, output_file, dedup_columns, pos, chunk_num,
                 first_chunk, dedup_state, hdr_log, rerun, rows_in_memory>>

\* lines 128-151: the loop is over, _remove_duplicates_across_chunks opens
\* the intermediate file; no handler is around this call
DtReturn ==
  /\ pc = "dedup_transform"
  /\ CanRead(input_file)
  /\ ~MoreChunks(DataOf(input_file), pos, chunk_num)
  /\ seen_combinations' = {}
  /\ first_occurrence_indices' = <<>>
  /\ IF CanRead(temp_file)
     THEN /\ pc' = "pass1"
          /\ ResetReader
          /\ UNCHANGED <<raised, failed_in>>
     ELSE /\ Raise("ReadError", "pass1")
          /\ UNCHANGED <<pos, chunk_num, first_chunk>>
  /\ UNCHANGED <<inputs, output_file, temp_file, dedup_columns, hdr_log, rerun, rows_in_memory>>

\* ---- _remove_duplicates_across_chunks on the intermediate file
\* lines 153-165 for one chunk of the first pass
Pass1Chunk ==
  /\ pc = "pass1"
  /\ MoreChunks(DataOf(temp_file), pos, chunk_num)
  /\ LET st == Pass1Step([seen_combinations |-> seen_combinations,
                          first_occurrence_indices |-> first_occurrence_indices,
                          pos |-> pos, chunk_num |-> chunk_num],
                         temp_file, chunk_size, dedup_columns)
     IN /\ seen_combinations' = st.seen_combinations
        /\ first_occurrence_indices' = st.first_occurrence_indices
        /\ pos' = st.pos
        /\ chunk_num' = st.chunk_num
  /\ rows_in_memory' = Len(Window(DataOf(temp_file), pos, chunk_size))
  /\ UNCHANGED <<inputs, output_file, temp_file, pc, dedup_columns, first_chunk,
                 raised, failed_in, hdr_log, rerun>>

\* a read of the first pass fails; nothing catches it
Pass1IOError ==
  /\ pc = "pass1"
  /\ MoreChunks(DataOf(temp_file), pos, chunk_num)
  /\ Raise("IOError", "pass1")
  /\ UNCHANGED <<inputs, output_file, temp_file, dedup_columns, pos, chunk_num,
                 first_chunk, dedup_state, hdr_log, rerun, rows_in_memory>>

\* Pass1Return taken while the reader of the first pass still has chunks
Pass1Return_BeforeEnd ==
  /\ pc = "pass1"
  /\ MoreChunks(DataOf(temp_file), pos, chunk_num)
  /\ pc' = "pass2"
  /\ ResetReader
  /\ UNCHANGED <<inputs, output_file, temp_file, dedup_columns, dedup_state,
                 raised, failed_in, hdr_log, rerun, rows_in_memory>>

\* lines 167-174: the first pass is over, the file is opened again
Pass1Return ==
  /\ pc = "pass1"
  /\ ~MoreChunks(DataOf(temp_file), pos, chunk_num)
  /\ pc' = "pass2"
  /\ ResetReader
  /\ UNCHANGED <<inputs, output_file, temp_file, dedup_columns, dedup_state,
                 raised, failed_in, hdr_log, rerun, rows_in_memory>>

\* lines 176-203 for one chunk of the second pass; the KeyError of line 182
\* reaches the caller of process_csv_in_chunks
Pass2Chunk ==
  /\ pc = "pass2"
  /\ MoreChunks(DataOf(temp_file), pos, chunk_num)
  /\ LET st == Pass2Step(LoopState(output_file), temp_file, chunk_size,
                         dedup_columns, first_occurrence_indices)
     IN IF st.ok
        THEN /\ output_file' = st.sink
             /\ pos' = st.pos
             /\ chunk_num' = st.chunk_num
             /\ first_chunk' = st.first_chunk
             /\ UNCHANGED <<pc, raised, failed_in>>
        ELSE /\ Raise("KeyError", "pass2")
             /\ UNCHANGED <<output_file, pos, chunk_num, first_chunk>>
  /\ rows_in_memory' = Len(Window(DataOf(temp_file), pos, chunk_size))
  /\ UNCHANGED <<inputs, temp_file, dedup_columns, dedup_state, hdr_log, rerun>>

\* a read or a write of the second pass fails; nothing catches it
Pass2IOError ==
  /\ pc = "pass2"
  /\ MoreChunks(DataOf(temp_file), pos, chunk_num)
  /\ Raise("IOError", "pass2")
  /\ UNCHANGED <<inputs, output_file, temp_file, dedup_columns, pos, chunk_num,
                 first_chunk, dedup_state, hdr_log, rerun, rows_in_memory>>

\* Pass2Return without step 3 (lines 135-136)
Pass2Return_NoCleanup ==
  /\ pc = "pass2"
  /\ ~MoreChunks(DataOf(temp_file), pos, chunk_num)
  /\ temp_file' = temp_file
  /\ pc' = "done"
  /\ UNCHANGED <<inputs, output_file, dedup_columns, pos, chunk_num, first_chunk,
                 dedup_state, raised, failed_in, hdr_log, rerun, rows_in_memory>>

\* lines 205 and 134-138: the second pass is over, the intermediate file is
\* removed
Pass2Return ==
  /\ pc = "pass2"
  /\ ~MoreChunks(DataOf(temp_file), pos, chunk_num)
  /\ temp_file' = (IF temp_file.exists THEN Remove(temp_file) ELSE temp_file)
  /\ pc' = "done"
  /\ UNCHANGED <<inputs, output_file, dedup_columns, pos, chunk_num, first_chunk,
                 dedup_state, raised, failed_in, hdr_log, rerun, rows_in_memory>>

\* _remove_duplicates_across_chunks called once more, on the final output of
\* a Dedup Mode run, with the same columns and any chunk size
RerunDeduplication ==
  /\ pc = "done"
  /\ dedup_columns # <<>>
  /\ ~rerun.made
  /\ \E cs \in 1..MaxChunk :
       LET r == RemoveDuplicatesAcrossChunks(output_file, NoFile, dedup_columns, cs)
       IN rerun' = [made |-> TRUE, chunk_size |-> cs, ok |-> r.ok, sink |-> r.sink]
  /\ UNCHANGED <<inputs, output_file, temp_file, pc, dedup_columns, pos, chunk_num,
                 first_chunk, dedup_state, raised, failed_in, hdr_log, rows_in_memory>>

Next ==
  \/ Start
  \/ NdOpenFails
  \/ NdChunk
  \/ NdIOError
  \/ NdReturn
  \/ DtOpenFails
  \/ DtChunk
  \/ DtIOError
  \/ DtReturn
  \/ Pass1Chunk
  \/ Pass1IOError
  \/ Pass1Return
  \/ Pass2Chunk
  \/ Pass2IOError
  \/ Pass2Return
  \/ RerunDeduplication

Spec == Init /\ [][Next]_vars

\* ---------------------------------------------------------- well-formedness
TypeOK ==
  /\ pc \in {"start", "no_dedup", "dedup_transform", "pass1", "pass2", "done", "failed"}
  /\ chunk_size \in 1..MaxChunk
  /\ write_header \in BOOLEAN
  /\ first_chunk \in BOOLEAN
  /\ pos \in 0..MaxRows
  /\ (pc = "failed") = (raised # "")

\* the window by window run ends as the function of the inputs says
StepsAgreeWithFunction ==
  pc = "done" =>
    LET r == ProcessCsvInChunks(input_file, rules_src, chunk_size, write_header)
    IN r.ok /\ r.sink = output_file

\* ================================================================= claims
DedupMode == dedup_columns # <<>>

\* the intermediate file as the transform phase of this run leaves it
TransformedFile ==
  DriverLoop(LoopStart(NoFile), input_file, rules_src, chunk_size, write_header, TRUE).sink
\* the column names of a transformed chunk
TransformedCols ==
  data_transformation(ParseChunk(Header, <<>>, 0), TRUE, rules_src).df.cols
\* the configured columns that the transformed data has, in configured order
KeyColumns == SelectSeq(dedup_columns, LAMBDA col : col \in Range(TransformedCols))
\* the value a cell text stands for: a number, a missing value, or a string
CellKey(s) ==
  IF s \in NATexts THEN "NA"
  ELSE IF s \in IntTexts \cup FloatTexts THEN NumOf(s)
  ELSE s
RowKey(line) ==
  [k \in DOMAIN KeyColumns |->
     CellKey(line.cells[ColIndex(TransformedCols, KeyColumns[k])])]
\* for each distinct key the earliest row, in file order
FirstOccurrences(ls) ==
  SelectIdx(ls, [i \in DOMAIN ls |-> \A j \in 1..(i - 1) : RowKey(ls[j]) # RowKey(ls[i])])
NoDuplicateKeys(ls) ==
  \A i, j \in DOMAIN ls : i < j => RowKey(ls[i]) # RowKey(ls[j])

\* C1: the final output of a Dedup Mode run holds, for each distinct key of
\* the transformed rows, exactly the earliest row with that key, the kept
\* rows in file order (rows are told apart by the input row they stem from).
C1_FirstRowPerKey ==
  (pc = "done" /\ DedupMode) =>
     IdsOf(RowsOf(output_file)) = IdsOf(FirstOccurrences(RowsOf(TransformedFile)))

\* C2: chunk-size invariance: a finished run's final output is the output of
\* every successful run on the same input, rules and write_header with any
\* other chunk size.
C2_ChunkSizeInvariance ==
  pc = "done" =>
     \A cs \in 1..MaxChunk :
        LET r == ProcessCsvInChunks(input_file, rules_src, cs, write_header)
        IN r.ok => r.sink = output_file

\* the Row Transformer applied once to the whole input as a single chunk,
\* written out
WholeInputTransformed ==
  ToCsv(NoFile,
        data_transformation(ParseChunk(Header, DataOf(input_file), 0), FALSE, rules_src).df,
        "w", write_header)

\* C3, its content clause: without de-duplication the final output is the
\* Row Transformer applied once to the whole input as a single chunk (which
\* has one output row per row the transformer keeps).
C3_NoDedupIsWholeTransform ==
  (pc = "done" /\ ~DedupMode) => output_file = WholeInputTransformed

\* C4, its bound and the "only if" half of its equivalence: a successful
\* Dedup Mode run writes at most as many rows as the input has, and writes
\* as many only if no two transformed rows share a Deduplication Key.
C4_RowCount ==
  (pc = "done" /\ DedupMode) =>
     /\ Len(RowsOf(output_file)) <= Len(DataOf(input_file))
     /\ (Len(RowsOf(output_file)) = Len(DataOf(input_file)))
           => NoDuplicateKeys(RowsOf(TransformedFile))

\* C5: de-duplicating the final output of a de-duplication again, with the
\* same columns and any chunk size, yields a file identical to its input.
C5_Idempotent ==
  (rerun.made /\ output_file.exists) => (rerun.ok /\ rerun.sink = output_file)

\* C6: in Dedup Mode an error of the transform phase reaches the caller with
\* the intermediate file gone, and a run that succeeds returns with the
\* intermediate file gone.
C6_TransformFailureCleansUp ==
  /\ (pc = "failed" /\ DedupMode /\ failed_in \in {"open", "transform"}) =>
        (raised # "" /\ ~temp_file.exists)
  /\ (pc = "done" /\ DedupMode) => ~temp_file.exists
C6_Witness ==
  /\ pc = "failed" /\ DedupMode /\ failed_in = "transform"
  /\ chunk_num > 0 /\ raised = "IOError" /\ ~temp_file.exists

\* C7 as claimed: an I/O error of a Dedup Mode run reaches the caller and
\* finds the intermediate file removed, whichever phase it was raised in.
C7_NoFailedRunLeavesTemp ==
  (DedupMode /\ raised = "IOError") => (pc = "failed" /\ ~temp_file.exists)
\* C7 as amended: every I/O error of a Dedup Mode run reaches the caller; one
\* raised in the transform phase finds the intermediate file removed, one
\* raised in a pass of the de-duplication phase leaves it where it is.
C7_CleanupOnlyInTransformPhase ==
  (DedupMode /\ raised = "IOError") =>
     /\ pc = "failed"
     /\ failed_in = "transform" => ~temp_file.exists
     /\ failed_in \in {"pass1", "pass2"} => temp_file.exists
C7_Witness ==
  /\ pc = "failed" /\ DedupMode /\ raised = "IOError" /\ failed_in = "pass2"
  /\ chunk_num > 0 /\ temp_file.exists

\* C8: with no file at the input path the run ends with an error before any
\* window is handled, and leaves no file of its own at the output path or at
\* the intermediate path, in both modes.
C8_MissingInputAborts ==
  (~input_file.exists /\ pc # "start") =>
     /\ pc \in {"no_dedup", "dedup_transform", "failed"}
     /\ chunk_num = 0 /\ hdr_log = <<>>
     /\ output_file \in {NoFile, StaleFile}
     /\ temp_file \in {NoFile, StaleFile}
     /\ pc = "failed" =>
          (raised = "ReadError" /\ failed_in = "open" /\ (DedupMode => ~temp_file.exists))
C8_Witness ==
  ~input_file.exists /\ pc = "failed" /\ DedupMode /\ raised = "ReadError"

\* C9: a rules file that cannot be read is never fatal: the run fails for no
\* reason of the rules and ends as a run with no rules at all ends.
C9_RuleErrorsNotFatal ==
  (~rules_src.ok /\ CanRead(input_file)) =>
     /\ raised # "RulesError"
     /\ pc = "done" =>
          output_file = ProcessCsvInChunks(input_file, Rules(<<>>), chunk_size, write_header).sink

\* the file the transform loop of this run writes to
SinkFile == IF DedupMode THEN temp_file ELSE output_file

\* C10: in both transform loops the first window is written with a header
\* iff write_header, and no later window is written with a header.
C10_HeaderOnlyWithFirstWindow ==
  /\ \A i \in DOMAIN hdr_log : hdr_log[i] = (write_header /\ i = 1)
  /\ pc \in {"no_dedup", "dedup_transform"} =>
        /\ Len(hdr_log) = chunk_num
        /\ \A k \in DOMAIN SinkFile.lines :
              (chunk_num > 0 /\ SinkFile.lines[k].hdr) <=> (chunk_num > 0 /\ write_header /\ k = 1)
C10_Witness ==
  /\ pc = "dedup_transform" /\ write_header
  /\ Len(hdr_log) >= 2 /\ Len(temp_file.lines) >= 3

\* C11: a successful run of the de-duplication leaves a final output whose
\* first line is the header and that holds no other header line, whatever
\* the transformed rows are (none at all included).
C11_HeaderExactlyOnce ==
  (pc = "done" /\ DedupMode) =>
     /\ output_file.exists
     /\ Len(output_file.lines) >= 1
     /\ \A k \in DOMAIN output_file.lines : output_file.lines[k].hdr <=> k = 1

\* a line of f is a line of the file found at the path before the run
HasStale(f) ==
  \E k \in DOMAIN f.lines : \E j \in DOMAIN StaleFile.lines : f.lines[k] = StaleFile.lines[j]

\* C12: once the run has started the final output holds no line that was at
\* the output path before the run, and from the first window written on the
\* intermediate file, which the de-duplication passes read, holds no line
\* that was at the intermediate path before the run.
C12_NoStaleContent ==
  /\ pc # "start" => ~HasStale(output_file)
  /\ (DedupMode /\ ~(pc = "dedup_transform" /\ chunk_num = 0)) => ~HasStale(temp_file)
C12_Witness ==
  /\ stale /\ DedupMode /\ pc = "pass2" /\ chunk_num > 0
  /\ temp_file.exists /\ output_file.exists /\ Len(output_file.lines) >= 2

\* some configured de-duplication column is no column of the transformed data
ConfiguredAbsent ==
  \E k \in DOMAIN dedup_columns : dedup_columns[k] \notin Range(TransformedCols)

\* C13: with a configured de-duplication column absent from the transformed
\* data, the run completes without error unless a read or a write fails, and
\* its output holds, for each distinct key over the configured columns that
\* are present, exactly the earliest row.
C13_AbsentColumnsDegradeKey ==
  (DedupMode /\ ConfiguredAbsent /\ CanRead(input_file) /\ raised # "IOError") =>
     /\ raised = ""
     /\ pc = "done" =>
          IdsOf(RowsOf(output_file)) = IdsOf(FirstOccurrences(RowsOf(TransformedFile)))

\* the data rows of ls whose key holds a missing value
MissingKeyIds(ls) ==
  {ls[i].id : i \in {j \in DOMAIN ls : \E k \in DOMAIN KeyColumns : RowKey(ls[j])[k] = "NA"}}

\* C14: a missing value in a key column compares equal to a missing value in
\* the same position: pass 2 finds the key of every such row, and of the rows
\* whose keys hold missing values exactly the earliest of each key is output.
C14_MissingValuesCompareEqual ==
  (DedupMode /\ write_header /\ CanRead(input_file)) =>
     /\ raised # "KeyError"
     /\ pc = "done" =>
          MissingKeyIds(RowsOf(output_file)) =
             MissingKeyIds(FirstOccurrences(RowsOf(TransformedFile)))

\* the spec's global row index (rows read before this one, counted across
\* chunk boundaries) that a position pair stands for
GlobalIndex(pair, cs) == pair[1] * cs + pair[2]
\* the rows pass 1 has read so far (all of them once pass 2 runs)
ScannedByPass1(n) == IF pc = "pass1" THEN 1..pos ELSE 1..n

\* C15: the pair (chunk_num, idx % chunk_size) stands for the global row
\* index: the pair of the j-th row read is the pair of global index j - 1,
\* pairs are ordered as the rows are (so distinct rows have distinct pairs),
\* the pair recorded for a key is that of the first row read with the key,
\* and pass 2 has emitted exactly the rows whose global index is the one
\* recorded for their key.
C15_PositionRefinesGlobalIndex ==
  pc \in {"pass1", "pass2"} =>
     LET PassRows == ChunkRows(temp_file, chunk_size, 0, 0)
         PassPosition == [j \in DOMAIN PassRows |-> PositionOf(PassRows[j], chunk_size)]
         PassKey == [j \in DOMAIN PassRows |->
                       [pass \in {1, 2} |->
                          Combination(PassRows[j].row, PassRows[j].cols, dedup_columns, pass)]]
     IN /\ \A j \in DOMAIN PassRows : GlobalIndex(PassPosition[j], chunk_size) = j - 1
        /\ \A i, j \in DOMAIN PassRows :
              (i < j) <=> \/ PassPosition[i][1] < PassPosition[j][1]
                          \/ /\ PassPosition[i][1] = PassPosition[j][1]
                             /\ PassPosition[i][2] < PassPosition[j][2]
        /\ \A k \in DOMAIN first_occurrence_indices :
              \E j \in ScannedByPass1(Len(PassRows)) :
                 /\ PassKey[j][1] = k
                 /\ first_occurrence_indices[k] = PassPosition[j]
                 /\ \A i \in 1..(j - 1) : PassKey[i][1] # k
        /\ pc = "pass2" =>
              IdsOf(RowsOf(output_file)) =
                 SelectIdx([j \in 1..pos |-> PassRows[j].row.id],
                           [j \in 1..pos |->
                              GlobalIndex(first_occurrence_indices[PassKey[j][2]], chunk_size)
                                 = j - 1])
C15_Witness ==
  /\ pc = "pass2" /\ chunk_size >= 2 /\ chunk_num >= 2 /\ pos >= 3
  /\ Len(RowsOf(output_file)) >= 1 /\ Len(RowsOf(output_file)) < pos

\* the rules file without its RemoveDuplicates cells
WithoutDedupRules(src) ==
  [src EXCEPT !.rules = SelectSeq(src.rules, LAMBDA r : r.op # "RemoveDuplicates")]

\* C16: for every window a transform loop is about to hand over,
\* data_transformation returns the same with skip_deduplication set as with
\* it unset, and in both cases what it returns for the rules without their
\* RemoveDuplicates cells.
C16_SkipFlagHasNoEffect ==
  (/\ pc \in {"no_dedup", "dedup_transform"}
   /\ CanRead(input_file)
   /\ MoreChunks(DataOf(input_file), pos, chunk_num)) =>
        LET chunk_df == NextChunk(input_file, pos, chunk_size)
        IN /\ data_transformation(chunk_df, TRUE, rules_src)
                = data_transformation(chunk_df, FALSE, rules_src)
           /\ data_transformation(chunk_df, FALSE, rules_src)
                = data_transformation(chunk_df, FALSE, WithoutDedupRules(rules_src))
C16_Witness ==
  /\ pc = "no_dedup" /\ chunk_num = 1 /\ chunk_size >= 2
  /\ \E k \in DOMAIN rules_src.rules : rules_src.rules[k].op = "RemoveDuplicates"
  /\ \E i, j \in DOMAIN output_file.lines :
        /\ i < j /\ ~output_file.lines[i].hdr
        /\ output_file.lines[i].cells = output_file.lines[j].cells

\* the rules file with its Lowercase cell, if it has one, moved to the front
LowercaseFirst(src) ==
  IF \E k \in DOMAIN src.rules : src.rules[k].op = "Lowercase"
  THEN [src EXCEPT !.rules = <<Rule("Lowercase", <<>>)>>
                               \o SelectSeq(src.rules, LAMBDA r : r.op # "Lowercase")]
  ELSE src

\* C17: wherever the Lowercase rule stands in the rules, the operations that
\* name columns see the lower-cased column names: every window is
\* transformed as it is with the Lowercase rule applied first.
C17_LowercaseBeforeNamedColumns ==
  (/\ pc \in {"no_dedup", "dedup_transform"}
   /\ CanRead(input_file)
   /\ MoreChunks(DataOf(input_file), pos, chunk_num)) =>
        LET chunk_df == NextChunk(input_file, pos, chunk_size)
        IN data_transformation(chunk_df, DedupMode, rules_src)
             = data_transformation(chunk_df, DedupMode, LowercaseFirst(rules_src))

\* C18: once the mode is chosen the run is in the de-duplication path iff
\* get_deduplication_columns gave a non-empty list; without one the run
\* leaves the intermediate path as it found it and, when it is done, the
\* final output is what the transform loop writes from the input.
C18_ModeSelection ==
  pc # "start" =>
     /\ dedup_columns = get_deduplication_columns(rules_src)
     /\ pc \in {"dedup_transform", "pass1", "pass2"} => dedup_columns # <<>>
     /\ pc = "no_dedup" => dedup_columns = <<>>
     /\ failed_in \in {"pass1", "pass2"} => dedup_columns # <<>>
     /\ dedup_columns = <<>> =>
          /\ temp_file = (IF stale THEN StaleFile ELSE NoFile)
          /\ seen_combinations = {} /\ first_occurrence_indices = <<>>
          /\ pc = "done" =>
               output_file = DriverLoop(LoopStart(NoFile), input_file, rules_src,
                                        chunk_size, write_header, FALSE).sink
C18_Witness ==
  /\ pc = "done" /\ dedup_columns = <<>> /\ stale /\ temp_file = StaleFile
  /\ rules_src.ok
  /\ \E k \in DOMAIN rules_src.rules : rules_src.rules[k].op = "RemoveDuplicates"
  /\ Len(RowsOf(output_file)) >= 2

\* the header line and the first n data rows of a file
Prefix(f, n) == File(SubSeq(f.lines, 1, Min(n + 1, Len(f.lines))))

\* the order of the phases of a Dedup Mode run: while a pass runs the
\* intermediate file is there and is all that the transform phase writes for
\* the input; what pass 1 has recorded, and what pass 2 has written, is what
\* the pass yields for the rows of the intermediate file read so far; and
\* pass 2 runs on what pass 1 yields for the whole intermediate file
PhasesInOrder ==
  /\ pc \in {"pass1", "pass2"} =>
       /\ temp_file.exists
       /\ temp_file = TransformedFile
  /\ (pc = "pass1" /\ chunk_num > 0) =>
       LET p1 == Pass1Loop(Pass1Start, Prefix(temp_file, pos), chunk_size, dedup_columns)
       IN /\ seen_combinations = p1.seen_combinations
          /\ first_occurrence_indices = p1.first_occurrence_indices
  /\ pc = "pass2" =>
       /\ first_occurrence_indices =
            Pass1Loop(Pass1Start, temp_file, chunk_size, dedup_columns).first_occurrence_indices
       /\ chunk_num > 0 =>
            output_file = Pass2Loop(LoopStart(NoFile), Prefix(temp_file, pos), chunk_size,
                                    dedup_columns, first_occurrence_indices).sink

\* the transform phase of this Dedup Mode run has written the intermediate
\* file, and the file is gone
ArtifactDeleted == DedupMode /\ hdr_log # <<>> /\ ~temp_file.exists

\* C19 as claimed: the phases of a Dedup Mode run are in order, and the
\* intermediate file is deleted only after pass 2 has finished.
C19_DeletedOnlyAfterPass2 ==
  DedupMode => (PhasesInOrder /\ (ArtifactDeleted => pc = "done"))
\* C19 as amended: the phases of a Dedup Mode run are in order, and the
\* intermediate file is deleted only after pass 2 has finished or by the
\* handler of a transform phase that failed, never while a pass runs or is
\* still to run.
C19_DeletedAfterPass2OrByHandler ==
  DedupMode =>
     /\ PhasesInOrder
     /\ ArtifactDeleted => (pc = "done" \/ (pc = "failed" /\ failed_in = "transform"))
C19_Witness ==
  /\ pc = "pass2" /\ chunk_num >= 1 /\ pos >= 2
  /\ first_occurrence_indices # <<>>
  /\ Len(RowsOf(output_file)) >= 1
  /\ \E k \in DOMAIN temp_file.lines : temp_file.lines[k] # input_file.lines[k]

\* the distinct Deduplication Keys among the rows pass 1 has read so far
KeysReadSoFar ==
  LET n == IF pc = "pass1" THEN pos ELSE Len(DataOf(temp_file))
  IN {RowKey(DataOf(temp_file)[j]) : j \in 1..n}

\* C20: no loop ever holds more than chunk_size rows, and while the passes
\* run the set of seen keys and the first-occurrence index hold at most one
\* entry per distinct Deduplication Key read so far.
C20_BoundedMemory ==
  /\ rows_in_memory <= chunk_size
  /\ pc \in {"pass1", "pass2"} =>
        /\ Cardinality(seen_combinations) <= Cardinality(KeysReadSoFar)
        /\ Cardinality(DOMAIN first_occurrence_indices) <= Cardinality(KeysReadSoFar)

\* C21: while the passes run the set of seen keys is the key set of the
\* first-occurrence index, and every key pass 2 computes for a row of the
\* chunk it reads next is a key of the index, so no lookup fails.
C21_Pass2LookupsTotal ==
  pc \in {"pass1", "pass2"} =>
     /\ seen_combinations = DOMAIN first_occurrence_indices
     /\ (pc = "pass2" /\ MoreChunks(DataOf(temp_file), pos, chunk_num)) =>
           ~LookupFails(NextChunk(temp_file, pos, chunk_size), dedup_columns,
                        first_occurrence_indices)

\* the final output of a No-Dedup Mode run on the same input with the same
\* transformations: the rules without their RemoveDuplicates cells
NoDedupRunOutput ==
  DriverLoop(LoopStart(NoFile), input_file, WithoutDedupRules(rules_src),
             chunk_size, write_header, FALSE).sink

\* C22: when no two transformed rows share a Deduplication Key, a Dedup Mode
\* run that is done has left the final output file of a No-Dedup Mode run
\* with the same transformations: same existence, same header, same rows in
\* the same order.
C22_ModesAgreeWithoutDuplicates ==
  (pc = "done" /\ DedupMode /\ NoDuplicateKeys(RowsOf(TransformedFile))) =>
     output_file = NoDedupRunOutput

====
